---- MODULE Spec2Model ----
(***************************************************************************)
(* Model of src/app.py: the disaster dashboard.                            *)
(*                                                                         *)
(*   load_data()             reads disaster_map.json once, coerces the     *)
(*                           columns, drops rows and returns the table df  *)
(*   app.layout              is built from df at import time               *)
(*   update_map_and_stats()  is the one callback: it merges the viewport   *)
(*                           event into the browser's map-state store,     *)
(*                           filters df, picks the figure and the totals   *)
(*                                                                         *)
(* A float is an exact fraction in lowest terms, an infinity or NaN; the    *)
(* rounding of binary floating point is not modelled.  A JSON string that  *)
(* to_numeric has to parse is a sequence of characters.                    *)
(***************************************************************************)
EXTENDS Integers, Sequences, FiniteSets

VARIABLES pc, file, df, load_error, layout, map_state, last

vars == <<pc, file, df, load_error, layout, map_state, last>>

(***************************************************************************)
(* Bounds                                                                  *)
(***************************************************************************)
\* longest JSON array the input file holds
MaxRows == 2

(***************************************************************************)
(* Floats                                                                  *)
(***************************************************************************)
RECURSIVE GCD(_, _)
GCD(a, b) == IF b = 0 THEN a ELSE GCD(b, a % b)

Abs(x) == IF x < 0 THEN -x ELSE x

\* a float64: NaN, plus or minus infinity (inf is 1 or -1), or num / den
NaN == [nan |-> TRUE, inf |-> 0, num |-> 0, den |-> 1]
Inf(sign) == [nan |-> FALSE, inf |-> sign, num |-> 0, den |-> 1]
Rat(n, d) ==
    LET g == GCD(Abs(n), d)
    IN [nan |-> FALSE, inf |-> 0, num |-> n \div g, den |-> d \div g]
Val(x) == Rat(x, 1)

\* a + b
Add(a, b) ==
    IF a.nan \/ b.nan \/ a.inf * b.inf = -1 THEN NaN
    ELSE IF a.inf # 0 THEN a
    ELSE IF b.inf # 0 THEN b
    ELSE Rat(a.num * b.den + b.num * a.den, a.den * b.den)

\* a < b: false when either is NaN
Less(a, b) ==
    /\ ~a.nan /\ ~b.nan
    /\ IF a.inf # b.inf THEN a.inf < b.inf
       ELSE a.inf = 0 /\ a.num * b.den < b.num * a.den

\* a / n, for a count n > 0
DivInt(a, n) == IF a.nan \/ a.inf # 0 THEN a ELSE Rat(a.num, a.den * n)

\* int(a) of a finite float: towards zero
Trunc(a) == IF a.num >= 0 THEN a.num \div a.den ELSE -((-a.num) \div a.den)

RECURSIVE Pow10(_)
Pow10(k) == IF k = 0 THEN 1 ELSE 10 * Pow10(k - 1)

(***************************************************************************)
(* JSON values                                                             *)
(***************************************************************************)
\* a value of a numeric column: null, a JSON number n / d, or a JSON string
Null == [k |-> "null", n |-> 0, d |-> 1, s |-> <<>>]
Num(x) == [k |-> "num", n |-> x, d |-> 1, s |-> <<>>]
Frac(x, y) == [k |-> "num", n |-> x, d |-> y, s |-> <<>>]
Str(cs) == [k |-> "str", n |-> 0, d |-> 1, s |-> cs]

\* a value of a text column: null or a JSON string
TNull == [isnull |-> TRUE, t |-> ""]
Text(t) == [isnull |-> FALSE, t |-> t]

Digits == {"0", "1", "2", "3", "4", "5", "6", "7", "8", "9"}

DigitVal(c) ==
    CASE c = "0" -> 0 [] c = "1" -> 1 [] c = "2" -> 2 [] c = "3" -> 3
      [] c = "4" -> 4 [] c = "5" -> 5 [] c = "6" -> 6 [] c = "7" -> 7
      [] c = "8" -> 8 [] c = "9" -> 9

\* every character is a digit (true of the empty string)
AllDigits(cs) == \A i \in 1..Len(cs) : cs[i] \in Digits

RECURSIVE ParseNat(_)
ParseNat(cs) ==
    IF Len(cs) = 0 THEN 0
    ELSE 10 * ParseNat(SubSeq(cs, 1, Len(cs) - 1)) + DigitVal(cs[Len(cs)])

\* the ASCII white space the parser skips: space, tab, newline, vertical
\* tab, form feed, carriage return
Blanks == {" ", "\t", "\n", "", "\f", "\r"}

\* the string without its leading and trailing white space
RECURSIVE Strip(_)
Strip(cs) ==
    IF Len(cs) > 0 /\ cs[1] \in Blanks THEN Strip(Tail(cs))
    ELSE IF Len(cs) > 0 /\ cs[Len(cs)] \in Blanks THEN Strip(SubSeq(cs, 1, Len(cs) - 1))
    ELSE cs

\* the position of the first character of cs that is in set, Len(cs) + 1 if none
FirstOf(cs, set) ==
    IF \E i \in 1..Len(cs) : cs[i] \in set
    THEN CHOOSE i \in 1..Len(cs) : cs[i] \in set /\ \A j \in 1..(i - 1) : cs[j] \notin set
    ELSE Len(cs) + 1

HasSign(cs) == Len(cs) > 0 /\ cs[1] \in {"-", "+"}
Unsigned(cs) == IF HasSign(cs) THEN Tail(cs) ELSE cs
SignOf(cs) == IF Len(cs) > 0 /\ cs[1] = "-" THEN -1 ELSE 1

\* a decimal literal: [sign] digits [. digits] [e|E [sign] digits], with at
\* least one digit in the mantissa and in an exponent; white space around it
Literal(cs) ==
    LET body == Unsigned(Strip(cs))
        epos == FirstOf(body, {"e", "E"})
        mant == SubSeq(body, 1, epos - 1)
        expo == SubSeq(body, epos + 1, Len(body))
        dot == FirstOf(mant, {"."})
        whole == SubSeq(mant, 1, dot - 1)
        frac == SubSeq(mant, dot + 1, Len(mant))
        ok == /\ AllDigits(whole) /\ AllDigits(frac)
              /\ Len(whole) + Len(frac) > 0
              /\ (epos <= Len(body) =>
                    (AllDigits(Unsigned(expo)) /\ Len(Unsigned(expo)) > 0))
    IN IF ~ok THEN [ok |-> FALSE, sign |-> 1, digits |-> <<>>, exponent |-> 0]
       ELSE [ok |-> TRUE,
             sign |-> SignOf(Strip(cs)),
             digits |-> whole \o frac,
             exponent |-> (IF epos <= Len(body)
                           THEN SignOf(expo) * ParseNat(Unsigned(expo)) ELSE 0) - Len(frac)]

LiteralValue(l) ==
    IF l.exponent >= 0
    THEN Rat(l.sign * ParseNat(l.digits) * Pow10(l.exponent), 1)
    ELSE Rat(l.sign * ParseNat(l.digits), Pow10(-l.exponent))

Lower(c) ==
    CASE c = "I" -> "i" [] c = "N" -> "n" [] c = "F" -> "f" [] c = "A" -> "a"
      [] c = "T" -> "t" [] c = "Y" -> "y" [] OTHER -> c

LowerSeq(cs) == [i \in 1..Len(cs) |-> Lower(cs[i])]

InfWord == <<"i", "n", "f">>
InfinityWord == <<"i", "n", "f", "i", "n", "i", "t", "y">>

\* pd.to_numeric(column, errors='coerce'), one cell: a number is itself, a
\* string is parsed as a decimal literal or as one of the words nan, inf and
\* infinity (any case, inf and infinity with a sign or none), and null and
\* every other string become NaN
to_numeric(raw) ==
    CASE raw.k = "null" -> NaN
      [] raw.k = "num" -> Rat(raw.n, raw.d)
      [] raw.k = "str" ->
            IF Literal(raw.s).ok THEN LiteralValue(Literal(raw.s))
            ELSE IF LowerSeq(Unsigned(raw.s)) \in {InfWord, InfinityWord}
                 THEN Inf(SignOf(raw.s))
                 ELSE NaN

\* Series.fillna(0), one cell
fillna0(x) == IF x.nan THEN Val(0) ELSE x

\* Series.fillna('Unknown'), one cell of a text column
fillnaUnknown(x) == IF x.isnull THEN Text("Unknown") ELSE x

(***************************************************************************)
(* The input file                                                          *)
(***************************************************************************)
Rec(lat, lon, deaths, damage, year, type, loc) ==
    [Latitude |-> lat, Longitude |-> lon, TotalDeaths |-> deaths,
     TotalDamageAdj |-> damage, StartYear |-> year,
     DisasterType |-> type, Location |-> loc]

\* the records the input files are made of: each one exercises one rule
SampleRecords == <<
    Rec(Num(35), Num(139), Str(<<"1", "0", "0", "0">>), Str(<<"5", "0", "0", "0", "0", "0">>),
        Str(<<"2", "0", "1", "1">>), Text("Earthquake"), Text("Japan")),
    Rec(Str(<<"\t", "1", "0", ".", "0">>), Str(<<"-", "2", "e", "1", " ">>), Num(20), Num(7),
        Num(2011), Text("Earthquake"), Text("Chile")),
    Rec(Str(<<"x">>), Num(139), Num(1), Num(1), Num(2011), Text("Earthquake"), Text("Japan")),
    Rec(Num(35), Null, Num(1), Num(1), Num(2011), Text("Earthquake"), Text("Japan")),
    Rec(Num(5), Num(6), Str(<<"x">>), Null, Str(<<"x">>), Text("Flood"), Text("Peru")),
    Rec(Num(7), Num(8), Str(<<"-", "5">>), Num(-3), Num(2011), Text("Earthquake"), Text("Iran")),
    Rec(Num(1), Num(2), Num(3), Num(4), Num(2011), Text("Volcano"), Text("Italy")),
    Rec(Num(1), Num(2), Num(3), Num(4), Num(2011), TNull, Text("Italy")),
    Rec(Num(1), Num(2), Num(3), Num(4), Num(2011), Text("Earthquake"), TNull),
    Rec(Frac(3, 2), Num(2), Num(3), Str(<<"2", ".", "5">>), Str(<<"2", "0", "1", "1", ".", "9", "\n">>),
        Text("Flood"), Text("")),
    Rec(Num(1), Num(2), Num(3), Num(4), Str(<<"i", "n", "f">>), Text("Earthquake"), Text("Fiji"))
>>

\* a file holds a subsequence of SampleRecords, at most MaxRows long
IndexSeqs ==
    {q \in UNION {[1..n -> 1..Len(SampleRecords)] : n \in 0..MaxRows} :
        \A i \in 1..Len(q) - 1 : q[i] < q[i + 1]}

\* disaster_map.json: absent, not JSON, or a JSON array of records
InputFiles ==
    {[kind |-> "missing", rows |-> <<>>], [kind |-> "malformed", rows |-> <<>>]}
    \cup {[kind |-> "ok", rows |-> [i \in 1..Len(q) |-> SampleRecords[q[i]]]] : q \in IndexSeqs}

NoFile == [kind |-> "none", rows |-> <<>>]

(***************************************************************************)
(* load_data                                                               *)
(***************************************************************************)
\* pd.DataFrame(data): one row per record, labelled by its position
Frame(rows) ==
    [i \in 1..Len(rows) |->
        [idx |-> i,
         Latitude |-> rows[i].Latitude, Longitude |-> rows[i].Longitude,
         TotalDeaths |-> rows[i].TotalDeaths, TotalDamageAdj |-> rows[i].TotalDamageAdj,
         StartYear |-> rows[i].StartYear,
         DisasterType |-> rows[i].DisasterType, Location |-> rows[i].Location]]

\* the five column conversions; astype(int) cuts the year's fraction off
Coerce(r) ==
    [idx |-> r.idx,
     Latitude |-> to_numeric(r.Latitude),
     Longitude |-> to_numeric(r.Longitude),
     TotalDeaths |-> fillna0(to_numeric(r.TotalDeaths)),
     TotalDamageAdj |-> r.TotalDamageAdj,
     TotalDamage |-> fillna0(to_numeric(r.TotalDamageAdj)),
     StartYear |-> Trunc(fillna0(to_numeric(r.StartYear))),
     DisasterType |-> r.DisasterType,
     Location |-> r.Location]

\* df.dropna(subset=['Latitude', 'Longitude', 'Disaster Type', 'Location'])
NotNa(r) ==
    /\ ~r.Latitude.nan
    /\ ~r.Longitude.nan
    /\ ~r.DisasterType.isnull
    /\ ~r.Location.isnull

\* df[col] = df[col].fillna('Unknown') for the two text columns
FillText(r) ==
    [r EXCEPT !.DisasterType = fillnaUnknown(r.DisasterType),
              !.Location = fillnaUnknown(r.Location)]

AllowedTypes == {"Earthquake", "Flood", "Storm", "Drought"}

\* df['Disaster Type'].isin([...])
IsAllowed(r) == r.DisasterType.t \in AllowedTypes

\* pd.DataFrame(): no rows and no columns
EmptyFrame == [cols |-> FALSE, rows |-> <<>>]

\* .astype(int) raises on a column that holds an infinity
YearNotFinite(rec) == to_numeric(rec.StartYear).inf # 0

\* the body of the try block raises: no file, no JSON, an array of no records
\* (a frame without columns, so df['Latitude'] is a KeyError), or a Start
\* Year that cannot be cast
Raises(f) ==
    \/ f.kind # "ok"
    \/ Len(f.rows) = 0
    \/ \E i \in 1..Len(f.rows) : YearNotFinite(f.rows[i])

Cleaned(f) ==
    LET frame == Frame(f.rows)
        coerced == [i \in 1..Len(frame) |-> Coerce(frame[i])]
        kept == SelectSeq(coerced, NotNa)
        filled == [i \in 1..Len(kept) |-> FillText(kept[i])]
    IN SelectSeq(filled, IsAllowed)

load_data(f) ==
    IF Raises(f)
    THEN [df |-> EmptyFrame, error |-> TRUE]
    ELSE [df |-> [cols |-> TRUE, rows |-> Cleaned(f)], error |-> FALSE]

(***************************************************************************)
(* State                                                                   *)
(***************************************************************************)
NoLayout == [built |-> FALSE, min |-> 0, max |-> 0, value |-> 0, options |-> {}]

\* dcc.Store(id='map-state', data=...)
InitialMapState == [zoom |-> Val(2), center |-> [lat |-> Val(20), lon |-> Val(0)], autosize |-> TRUE]

Origin == [lat |-> Val(0), lon |-> Val(0)]

NoFigure == [mode |-> "none", data |-> <<>>, center |-> Origin, zoom |-> Val(0),
             uirevision |-> ""]

NoStats == [total_events |-> 0, total_deaths |-> Val(0), total_damage |-> Val(0)]

NoYear == [isNone |-> TRUE, v |-> 0]
Year(y) == [isNone |-> FALSE, v |-> y]

NoRelayout == [isNone |-> TRUE, keys |-> {}, zoom |-> Val(0), center |-> Origin]

NoCall == [status |-> "none", selected_year |-> NoYear,
           selected_type |-> "", relayout_data |-> NoRelayout,
           fig |-> NoFigure, stats |-> NoStats, map_state |-> InitialMapState]

Init ==
    /\ pc = "start"
    /\ file = NoFile
    /\ df = EmptyFrame
    /\ load_error = FALSE
    /\ layout = NoLayout
    /\ map_state = InitialMapState
    /\ last = NoCall

\* df = load_data(), with whatever disaster_map.json is on disk
LoadData ==
    /\ pc = "start"
    /\ \E f \in InputFiles :
        /\ file' = f
        /\ df' = load_data(f).df
        /\ load_error' = load_data(f).error
    /\ pc' = "loaded"
    /\ UNCHANGED <<layout, map_state, last>>

(***************************************************************************)
(* app.layout                                                              *)
(***************************************************************************)
Years(rows) == {rows[i].StartYear : i \in 1..Len(rows)}

\* df['Start Year'].min() and .max(), of a table that has rows
MinYear(rows) == CHOOSE y \in Years(rows) : \A z \in Years(rows) : y <= z
MaxYear(rows) == CHOOSE y \in Years(rows) : \A z \in Years(rows) : y >= z

\* df['Start Year'] raises KeyError on the frame without columns; on a table
\* without rows min() is NaN and range(NaN, ...) raises TypeError
LayoutRaises(d) == ~d.cols \/ Len(d.rows) = 0

\* the year slider and the type dropdown
Controls(d) ==
    [built |-> TRUE, min |-> MinYear(d.rows), max |-> MaxYear(d.rows),
     value |-> MaxYear(d.rows),
     options |-> {d.rows[i].DisasterType.t : i \in 1..Len(d.rows)}]

\* app.layout = html.Div([...]), evaluated when the module is imported
BuildLayout ==
    /\ pc = "loaded"
    /\ IF LayoutRaises(df)
       THEN pc' = "crashed" /\ UNCHANGED layout
       ELSE pc' = "ready" /\ layout' = Controls(df)
    /\ UNCHANGED <<file, df, load_error, map_state, last>>

\* app.run_server(...)
RunServer ==
    /\ pc = "ready"
    /\ pc' = "serving"
    /\ UNCHANGED <<file, df, load_error, layout, map_state, last>>

(***************************************************************************)
(* update_map_and_stats                                                    *)
(***************************************************************************)
\* if relayout_data: a None and an empty dict are both false
Truthy(rd) == ~rd.isNone /\ rd.keys # {}

\* a merge that rebuilds the store from the event: a field the event does not
\* carry falls back to the initial viewport
MergeViewportRebuilding(ms, rd) ==
    IF ~Truthy(rd) THEN ms
    ELSE [ms EXCEPT
            !.zoom = IF "mapbox.zoom" \in rd.keys THEN rd.zoom ELSE InitialMapState.zoom,
            !.center = IF "mapbox.center" \in rd.keys
                       THEN [lat |-> rd.center.lat, lon |-> rd.center.lon]
                       ELSE InitialMapState.center]

\* lines 172-179: the event's zoom and center overwrite the stored ones
MergeViewport(ms, rd) ==
    LET z == IF Truthy(rd) /\ "mapbox.zoom" \in rd.keys THEN rd.zoom ELSE ms.zoom
        c == IF Truthy(rd) /\ "mapbox.center" \in rd.keys
             THEN [lat |-> rd.center.lat, lon |-> rd.center.lon]
             ELSE ms.center
    IN [ms EXCEPT !.zoom = z, !.center = c]

\* a filter that forgets the year
MatchesTypeOnly(r, selected_year, selected_type) ==
    r.DisasterType.t = selected_type

\* (df['Start Year'] == selected_year) & (df['Disaster Type'] == selected_type)
Matches(r, selected_year, selected_type) ==
    /\ ~selected_year.isNone
    /\ r.StartYear = selected_year.v
    /\ r.DisasterType.t = selected_type

filtered_df(rows, selected_year, selected_type) ==
    LET keep(r) == Matches(r, selected_year, selected_type)
    IN SelectSeq(rows, keep)

RECURSIVE SumDeaths(_)
SumDeaths(rows) ==
    IF Len(rows) = 0 THEN Val(0) ELSE Add(rows[1].TotalDeaths, SumDeaths(Tail(rows)))

RECURSIVE SumDamage(_)
SumDamage(rows) ==
    IF Len(rows) = 0 THEN Val(0) ELSE Add(rows[1].TotalDamage, SumDamage(Tail(rows)))

\* statistics that count the rows where they should add the deaths up
StatisticsCounting(filtered) ==
    [total_events |-> Len(filtered),
     total_deaths |-> Val(Len(filtered)),
     total_damage |-> SumDamage(filtered)]

\* lines 241-243
Statistics(filtered) ==
    [total_events |-> Len(filtered),
     total_deaths |-> SumDeaths(filtered),
     total_damage |-> SumDamage(filtered)]

\* the zoom below which the density map is drawn, in zoom levels
DensityZoomLimit == 5

\* the three branches of lines 188-228
RenderMode(filtered, ms) ==
    IF Len(filtered) = 0 THEN "placeholder"
    ELSE IF Less(ms.zoom, Val(DensityZoomLimit)) THEN "density"
    ELSE "points"

\* the markers of a figure: where, the hover name, and the size (points mode)
Marker(r, sized) ==
    [lat |-> r.Latitude, lon |-> r.Longitude, name |-> r.Location.t,
     size |-> IF sized THEN r.TotalDeaths ELSE Val(0)]

Markers(filtered, mode) ==
    IF mode = "placeholder"
    THEN <<[lat |-> Val(0), lon |-> Val(0), name |-> "", size |-> Val(0)]>>
    ELSE [i \in 1..Len(filtered) |-> Marker(filtered[i], mode = "points")]

RECURSIVE SumLat(_)
SumLat(ms) == IF Len(ms) = 0 THEN Val(0) ELSE Add(ms[1].lat, SumLat(Tail(ms)))

RECURSIVE SumLon(_)
SumLon(ms) == IF Len(ms) = 0 THEN Val(0) ELSE Add(ms[1].lon, SumLon(Tail(ms)))

\* the zoom plotly.express gives a map when it is passed none
PxDefaultZoom == 8

\* plotly.express centres a new map on the mean of its data and zooms to the
\* zoom argument, or to its default
PxFigure(filtered, mode, ms) ==
    LET m == Markers(filtered, mode)
    IN [mode |-> mode, data |-> m,
        center |-> [lat |-> DivInt(SumLat(m), Len(m)), lon |-> DivInt(SumLon(m), Len(m))],
        zoom |-> IF mode = "placeholder" THEN ms.zoom ELSE Val(PxDefaultZoom),
        uirevision |-> ""]

\* size="Total Deaths": a marker size below 0 is rejected with ValueError
PxRaises(filtered, mode) ==
    mode = "points" /\ \E i \in 1..Len(filtered) : Less(filtered[i].TotalDeaths, Val(0))

\* an update_layout that passes the zoom but not the center
UpdateLayoutZoomOnly(fig, ms) ==
    [fig EXCEPT !.zoom = ms.zoom, !.uirevision = "constant"]

\* fig.update_layout(mapbox=dict(center=..., zoom=...), uirevision='constant')
UpdateLayout(fig, ms) ==
    [fig EXCEPT !.center = ms.center, !.zoom = ms.zoom, !.uirevision = "constant"]

\* a callback that picks the figure by the zoom the store held before the merge
update_map_and_stats_stale_zoom(selected_year, selected_type, relayout_data, ms) ==
    LET merged == MergeViewport(ms, relayout_data)
        filtered == filtered_df(df.rows, selected_year, selected_type)
        mode == RenderMode(filtered, ms)
    IN IF PxRaises(filtered, mode)
       THEN [status |-> "error", fig |-> NoFigure, stats |-> NoStats, map_state |-> ms]
       ELSE [status |-> "ok",
             fig |-> UpdateLayout(PxFigure(filtered, mode, merged), merged),
             stats |-> Statistics(filtered),
             map_state |-> merged]

\* the callback: what it returns, or that it raised
update_map_and_stats(selected_year, selected_type, relayout_data, ms) ==
    LET merged == MergeViewport(ms, relayout_data)
        filtered == filtered_df(df.rows, selected_year, selected_type)
        mode == RenderMode(filtered, merged)
    IN IF PxRaises(filtered, mode)
       THEN [status |-> "error", fig |-> NoFigure, stats |-> NoStats, map_state |-> ms]
       ELSE [status |-> "ok",
             fig |-> UpdateLayout(PxFigure(filtered, mode, merged), merged),
             stats |-> Statistics(filtered),
             map_state |-> merged]

\* the inputs a browser can send
ZoomChoices == {Rat(4999, 1000), Val(5), Val(7)}
CenterChoices == {[lat |-> Val(10), lon |-> Val(10)]}
YearChoices == {NoYear, Year(0), Year(2011)}
TypeChoices == {"Earthquake", "Flood"}

Relayout(keys, z, c) == [isNone |-> FALSE, keys |-> keys, zoom |-> z, center |-> c]

RelayoutChoices ==
    {NoRelayout, Relayout({}, Val(0), Origin), Relayout({"autosize"}, Val(0), Origin)}
    \cup {Relayout({"mapbox.zoom"}, z, Origin) : z \in ZoomChoices}
    \cup {Relayout({"mapbox.center"}, Val(0), c) : c \in CenterChoices}
    \cup {Relayout({"mapbox.zoom", "mapbox.center"}, z, c) : z \in ZoomChoices, c \in CenterChoices}

\* one invocation: the three outputs go back to the browser, the third into
\* its map-state store; an invocation that raises updates nothing
Invoke(selected_year, selected_type, relayout_data) ==
    \E r \in {update_map_and_stats(selected_year, selected_type, relayout_data, map_state)} :
       /\ last' = [status |-> r.status, selected_year |-> selected_year,
                   selected_type |-> selected_type, relayout_data |-> relayout_data,
                   fig |-> r.fig, stats |-> r.stats, map_state |-> r.map_state]
       /\ map_state' = IF r.status = "ok" THEN r.map_state ELSE map_state

\* a callback that assigns its filtered rows to the global table
UpdateMapAndStatsWritingBack ==
    /\ pc = "serving"
    /\ \E y \in YearChoices, t \in TypeChoices, rd \in RelayoutChoices :
        /\ Invoke(y, t, rd)
        /\ df' = [df EXCEPT !.rows = filtered_df(df.rows, y, t)]
    /\ UNCHANGED <<pc, file, load_error, layout>>

UpdateMapAndStats ==
    /\ pc = "serving"
    /\ \E y \in YearChoices, t \in TypeChoices, rd \in RelayoutChoices : Invoke(y, t, rd)
    /\ UNCHANGED <<pc, file, df, load_error, layout>>

Next == LoadData \/ BuildLayout \/ RunServer \/ UpdateMapAndStats

Spec == Init /\ [][Next]_vars

(***************************************************************************)
(* Properties                                                              *)
(***************************************************************************)
Loaded == pc # "start"

\* the invocation recorded in last returned its three outputs
Returned == last.status = "ok"

\* the input record at position i is a row of the table
InTable(i) == \E j \in 1..Len(df.rows) : df.rows[j].idx = i

ParseableCoordinates(rec) ==
    ~to_numeric(rec.Latitude).nan /\ ~to_numeric(rec.Longitude).nan

AllowListed(rec) == ~rec.DisasterType.isnull /\ rec.DisasterType.t \in AllowedTypes

\* the rows of the table the selection of the recorded invocation picks
Selected ==
    {j \in 1..Len(df.rows) :
        /\ ~last.selected_year.isNone
        /\ df.rows[j].StartYear = last.selected_year.v
        /\ df.rows[j].DisasterType.t = last.selected_type}

RECURSIVE DeathsOver(_)
DeathsOver(S) ==
    IF S = {} THEN Val(0)
    ELSE LET j == CHOOSE x \in S : TRUE
         IN Add(df.rows[j].TotalDeaths, DeathsOver(S \ {j}))

RECURSIVE DamageOver(_)
DamageOver(S) ==
    IF S = {} THEN Val(0)
    ELSE LET j == CHOOSE x \in S : TRUE
         IN Add(df.rows[j].TotalDamage, DamageOver(S \ {j}))

\* C1: when load_data fails (file missing, malformed JSON, a required column
\* absent) startup does not end in a fatal error: the process is never
\* crashed after a failed load.
LoadFailureNeverCrashes == load_error => pc # "crashed"

\* C2: for a file that parsed, a record is in the loaded table iff its
\* latitude and longitude are parseable, its disaster type is allow-listed and
\* its location is present or defaulted to "Unknown"; nothing else decides.
MembershipIffRequiredFields ==
    (Loaded /\ file.kind = "ok") =>
        \A i \in 1..Len(file.rows) :
            InTable(i) <=>
                /\ ParseableCoordinates(file.rows[i])
                /\ AllowListed(file.rows[i])
                /\ ~fillnaUnknown(file.rows[i].Location).isnull

\* C3: every loaded record has Total Deaths >= 0 and Total Damage >= 0,
\* whatever the input values were.
TotalsNeverNegative ==
    \A j \in 1..Len(df.rows) :
        /\ ~df.rows[j].TotalDeaths.nan /\ ~df.rows[j].TotalDamage.nan
        /\ ~Less(df.rows[j].TotalDeaths, Val(0))
        /\ ~Less(df.rows[j].TotalDamage, Val(0))

\* C4: the ViewState an invocation returns (and stores) differs from the prior
\* one only in the fields the viewport event carries: a zoom in the event
\* overwrites the zoom, a center in the event overwrites the center, and
\* everything the event does not carry keeps its prior value.
ViewStateChangesOnlyByEvent ==
    [][(pc = "serving" /\ last'.status = "ok") =>
        LET rd == last'.relayout_data
        IN /\ map_state' = last'.map_state
           /\ map_state'.zoom = IF "mapbox.zoom" \in rd.keys THEN rd.zoom ELSE map_state.zoom
           /\ map_state'.center = IF "mapbox.center" \in rd.keys THEN rd.center
                                  ELSE map_state.center
           /\ map_state'.autosize = map_state.autosize]_vars

\* C4 witness: the store holds zoom 7 and center (10, 10) after an invocation
\* that carried no viewport payload.
FilterChangeKeptViewport ==
    /\ Returned
    /\ last.relayout_data = NoRelayout
    /\ map_state.zoom = Val(7)
    /\ map_state.center = [lat |-> Val(10), lon |-> Val(10)]

\* C5: in every invocation that returns, in each of the three rendering
\* modes, the figure's map center and zoom are those of the returned ViewState.
FigureShowsReturnedViewport ==
    Returned =>
        /\ last.fig.mode \in {"placeholder", "density", "points"}
        /\ last.fig.center = last.map_state.center
        /\ last.fig.zoom = last.map_state.zoom

\* C5 witness: a density figure drawn for a selection change (no viewport
\* payload) after the user has panned and zoomed away from the default.
DensityKeptPannedViewport ==
    /\ Returned
    /\ last.fig.mode = "density"
    /\ last.relayout_data = NoRelayout
    /\ last.fig.zoom = Rat(4999, 1000)
    /\ last.fig.center = [lat |-> Val(10), lon |-> Val(10)]

\* C6: when the selection matches some record, the mode is decided by the
\* zoom of the ViewState after the merge: below 5 density, at or above 5 points.
ModeByMergedZoom ==
    (Returned /\ Selected # {}) =>
        LET z == last.map_state.zoom
        IN last.fig.mode = IF z.num < 5 * z.den THEN "density" ELSE "points"

\* C6 witness: points are drawn at exactly zoom 5.0, the zoom the event of
\* that invocation carried.
PointsAtZoomFive ==
    /\ Returned
    /\ Selected # {}
    /\ "mapbox.zoom" \in last.relayout_data.keys
    /\ last.relayout_data.zoom = Val(5)
    /\ last.fig.mode = "points"

\* C7: an invocation whose (year, type) matches no record of the table returns
\* (no exception) the placeholder single-point figure, at any zoom, with
\* event count 0, total deaths 0 and total damage 0.
NoMatchGivesPlaceholder ==
    (last.status # "none" /\ Selected = {}) =>
        /\ Returned
        /\ last.fig.mode = "placeholder"
        /\ Len(last.fig.data) = 1
        /\ last.fig.data[1].lat = Val(0) /\ last.fig.data[1].lon = Val(0)
        /\ last.stats = [total_events |-> 0, total_deaths |-> Val(0), total_damage |-> Val(0)]

\* C7 witness: the placeholder drawn for an unset year at zoom 7.
PlaceholderForUnsetYear ==
    /\ Returned
    /\ last.selected_year = NoYear
    /\ last.map_state.zoom = Val(7)
    /\ last.fig.mode = "placeholder"
    /\ last.stats.total_events = 0

\* C8: in every invocation that returns, the event count is the number of
\* table rows whose Start Year and Disaster Type equal the selection, and the
\* two totals are the sums of Total Deaths and Total Damage over exactly those
\* rows: a function of the table and the selection alone.
StatisticsOfSelection ==
    Returned =>
        /\ last.stats.total_events = Cardinality(Selected)
        /\ last.stats.total_deaths = DeathsOver(Selected)
        /\ last.stats.total_damage = DamageOver(Selected)

\* C8 witness: two matching rows are added up (1000 + 20 deaths).
TwoEarthquakesSummed ==
    /\ Returned
    /\ last.stats.total_events = 2
    /\ last.stats.total_deaths = Val(1020)
    /\ last.stats.total_damage = Val(500007)

\* C9: the table is built once, by load_data, and no invocation of the
\* callback changes it: it always holds what load_data returned.
TableIsWhatLoadDataReturned == Loaded => df = load_data(file).df

\* C9 witness: an invocation has filtered a strict, non-empty part out of the
\* table and the table still has all its rows.
FilteredPartOfTable ==
    /\ Returned
    /\ last.stats.total_events > 0
    /\ last.stats.total_events < Len(df.rows)
    /\ df = load_data(file).df

\* C10: a record whose Location is missing, with parseable coordinates and an
\* allow-listed type, is loaded with Location "Unknown".
MissingLocationLoadsAsUnknown ==
    (Loaded /\ file.kind = "ok") =>
        \A i \in 1..Len(file.rows) :
            (/\ file.rows[i].Location.isnull
             /\ ParseableCoordinates(file.rows[i])
             /\ AllowListed(file.rows[i]))
            => \E j \in 1..Len(df.rows) :
                    df.rows[j].idx = i /\ df.rows[j].Location = Text("Unknown")
====
